---- MODULE Spec2Model ----
(***************************************************************************)
(* A model of script.js, the Codeforces profile analyzer: the retrying     *)
(* query client, the analyzeUser / compareUsers flows with their session   *)
(* variables and page elements, and the pure derivation functions          *)
(* (processSubmissions, calculateProblemStats, calculateContestStats).     *)
(*                                                                         *)
(* JavaScript values are modelled as follows.  A string that the code      *)
(* inspects character by character (a handle) is a sequence of one-        *)
(* character strings; other strings are TLA+ strings.  An array is a       *)
(* sequence.  A plain object used as a dictionary is a function whose      *)
(* domain is the set of its keys.  A Map is the sequence of its entries in *)
(* insertion order.  An optional field is a sequence of length 0 or 1.     *)
(* The numbers NaN and Infinity are the strings "NaN" and "Infinity".      *)
(***************************************************************************)
EXTENDS Integers, Sequences, FiniteSets, TLC

VARIABLES
    currentUser,              \* script.js:1
    currentUserSubmissions,   \* script.js:2
    currentUserRatingHistory, \* script.js:3
    charts,                   \* script.js:4, one slot per chart
    visible,                  \* style.display of the page's sections
    errorText,                \* textContent of .error-text
    page,                     \* text contents written by the update* functions
    calls,                    \* the analyzeUser / compareUsers invocations so far
    fq,                       \* one fetchWithRetry call, followed attempt by attempt
    flog,                     \* the outcomes of that call's attempts, in order
    pureSubs,                 \* a submission array given to the pure functions
    pureHist,                 \* a rating history given to the pure functions
    pureOp,                   \* the pure function applied last
    pureArg,                  \* its argument
    pureOut                   \* its result

vars == <<currentUser, currentUserSubmissions, currentUserRatingHistory, charts,
          visible, errorText, page, calls, fq, flog,
          pureSubs, pureHist, pureOp, pureArg, pureOut>>

sessionVars == <<currentUser, currentUserSubmissions, currentUserRatingHistory>>
pageVars == <<charts, visible, errorText, page>>
flowVars == <<currentUser, currentUserSubmissions, currentUserRatingHistory, charts,
              visible, errorText, page, calls>>
retryVars == <<fq, flog>>
pureVars == <<pureSubs, pureHist, pureOp, pureArg, pureOut>>

(***************************************************************************)
(* Bounds of the model.                                                    *)
(***************************************************************************)
MaxCalls == 2      \* invocations of analyzeUser / compareUsers in one run
MaxSubs == 3       \* length of a submission array given to a pure function
MaxHist == 3       \* length of a rating history given to a pure function
MaxOther == 2      \* length of the second user's arrays given to updateComparisonUI

DefaultRetries == 3    \* fetchWithRetry(url, retries = 3)

(***************************************************************************)
(* Sequence helpers.                                                       *)
(***************************************************************************)
SeqsUpTo(S, n) == UNION {[1..k -> S] : k \in 0..n}

Range(s) == {s[j] : j \in 1..Len(s)}

RECURSIVE SumSeq(_)
SumSeq(s) == IF s = <<>> THEN 0 ELSE Head(s) + SumSeq(Tail(s))

RECURSIVE SumSet(_, _)
SumSet(f, S) ==
    IF S = {} THEN 0
    ELSE LET x == CHOOSE y \in S : TRUE IN f[x] + SumSet(f, S \ {x})

(***************************************************************************)
(* processSubmissions (script.js:107-119).                                 *)
(***************************************************************************)
\* `${sub.problem.contestId}-${sub.problem.index}`
\* a mutant of problemKey: the index alone
problemIndex(sub) == sub.problem.index

problemKey(sub) == ToString(sub.problem.contestId) \o "-" \o sub.problem.index

\* submissions.filter(sub => sub.verdict === 'OK')
filterAccepted(submissions) == SelectSeq(submissions, LAMBDA sub : sub.verdict = "OK")

\* Map.prototype.has
MapHas(m, k) == \E j \in 1..Len(m) : m[j].key = k

\* Map.prototype.set: a present key keeps its place, an absent one is appended
MapSet(m, k, v) ==
    IF MapHas(m, k)
    THEN [j \in 1..Len(m) |-> IF m[j].key = k THEN [key |-> k, value |-> v] ELSE m[j]]
    ELSE Append(m, [key |-> k, value |-> v])

\* a mutant of MapValues: the values in reverse insertion order
MapValuesReversed(m) == [j \in 1..Len(m) |-> m[Len(m) + 1 - j].value]

\* Array.from(map.values()): the values in insertion order
MapValues(m) == [j \in 1..Len(m) |-> m[j].value]

\* a mutant of insertUnique: the has() test is missing, the last submission wins
insertAlways(m, sub) == MapSet(m, problemKey(sub), sub)

\* the forEach callback: if (!uniqueProblems.has(problemKey)) uniqueProblems.set(...)
insertUnique(m, sub) ==
    IF ~MapHas(m, problemKey(sub)) THEN MapSet(m, problemKey(sub), sub) ELSE m

RECURSIVE forEachInsert(_, _)
forEachInsert(subs, m) ==
    IF subs = <<>> THEN m
    ELSE forEachInsert(Tail(subs), insertUnique(m, Head(subs)))

processSubmissions(submissions) ==
    MapValues(forEachInsert(filterAccepted(submissions), <<>>))

(***************************************************************************)
(* calculateProblemStats (script.js:121-141).                              *)
(***************************************************************************)
EmptyObject == [k \in {} |-> 0]

\* obj[k] = (obj[k] || 0) + 1
Increment(obj, k) ==
    [x \in DOMAIN obj \cup {k} |->
        IF x = k THEN (IF k \in DOMAIN obj /\ obj[k] # 0 THEN obj[k] ELSE 0) + 1
        ELSE obj[x]]

\* the truthiness of sub.problem.rating: present and not 0
ratingTruthy(problem) == Len(problem.rating) = 1 /\ problem.rating[1] # 0

\* a mutant of ratingBucket: the rating itself, not rounded down
ratingExact(rating) == rating

\* Math.floor(rating / 100) * 100
ratingBucket(rating) == (rating \div 100) * 100

RECURSIVE countTags(_, _)
countTags(tags, tagList) ==
    IF tagList = <<>> THEN tags
    ELSE countTags(Increment(tags, Head(tagList)), Tail(tagList))

\* the forEach callback of calculateProblemStats
countSubmission(acc, sub) ==
    [levels |-> Increment(acc.levels, sub.problem.index),
     ratings |-> IF ratingTruthy(sub.problem)
                 THEN Increment(acc.ratings, ratingBucket(sub.problem.rating[1]))
                 ELSE acc.ratings,
     tags |-> countTags(acc.tags, sub.problem.tags)]

RECURSIVE forEachCount(_, _)
forEachCount(subs, acc) ==
    IF subs = <<>> THEN acc
    ELSE forEachCount(Tail(subs), countSubmission(acc, Head(subs)))

calculateProblemStats(acceptedSubmissions) ==
    forEachCount(acceptedSubmissions,
                 [levels |-> EmptyObject, ratings |-> EmptyObject, tags |-> EmptyObject])

(***************************************************************************)
(* calculateContestStats (script.js:143-153).                              *)
(***************************************************************************)
\* a mutant of MathMin: the first value
MathFirst(xs) == IF xs = <<>> THEN "Infinity" ELSE xs[1]

\* Math.min(...xs); Math.min() of no argument is Infinity
MathMin(xs) ==
    IF xs = <<>> THEN "Infinity"
    ELSE CHOOSE x \in Range(xs) : \A y \in Range(xs) : x <= y

\* Math.round(sum / n): the nearest integer, a half rounded up; 0 / 0 is NaN
MathRoundDiv(sum, n) ==
    IF n = 0 THEN "NaN" ELSE (2 * sum + n) \div (2 * n)

\* a mutant of emptyHistoryStats: no early return for the empty history
emptyHistoryComputed(ratingHistory) ==
    [attended |-> Len(ratingHistory),
     bestRank |-> MathMin([j \in 1..Len(ratingHistory) |-> ratingHistory[j].rank]),
     avgRating |-> MathRoundDiv(
         SumSeq([j \in 1..Len(ratingHistory) |-> ratingHistory[j].newRating]),
         Len(ratingHistory))]

\* if (!ratingHistory.length) return { attended: 0, bestRank: '-', avgRating: '-' }
emptyHistoryStats(ratingHistory) == [attended |-> 0, bestRank |-> "-", avgRating |-> "-"]

calculateContestStats(ratingHistory) ==
    IF Len(ratingHistory) = 0 THEN emptyHistoryStats(ratingHistory)
    ELSE [attended |-> Len(ratingHistory),
          bestRank |-> MathMin([j \in 1..Len(ratingHistory) |-> ratingHistory[j].rank]),
          avgRating |-> MathRoundDiv(
              SumSeq([j \in 1..Len(ratingHistory) |-> ratingHistory[j].newRating]),
              Len(ratingHistory))]

(***************************************************************************)
(* filterRatingHistoryByTime (script.js:155-173) and filterContestsByType  *)
(* (script.js:175-194).  A contest name is a sequence of characters.       *)
(***************************************************************************)
YearSeconds == 365 * 24 * 60 * 60
HalfYearSeconds == 6 * 30 * 24 * 60 * 60

\* a mutant of filterRatingHistoryByTime: an entry at the cutoff is dropped
filterAfterCutoff(ratingHistory, timeFrame, now) ==
    IF Len(ratingHistory) = 0 \/ timeFrame = "All" THEN ratingHistory
    ELSE IF timeFrame = "1Y"
    THEN SelectSeq(ratingHistory,
                   LAMBDA contest : contest.ratingUpdateTimeSeconds > now - YearSeconds)
    ELSE IF timeFrame = "6M"
    THEN SelectSeq(ratingHistory,
                   LAMBDA contest : contest.ratingUpdateTimeSeconds > now - HalfYearSeconds)
    ELSE ratingHistory

\* now is Date.now() / 1000
filterRatingHistoryByTime(ratingHistory, timeFrame, now) ==
    IF Len(ratingHistory) = 0 \/ timeFrame = "All" THEN ratingHistory
    ELSE IF timeFrame = "1Y"
    THEN SelectSeq(ratingHistory,
                   LAMBDA contest : contest.ratingUpdateTimeSeconds >= now - YearSeconds)
    ELSE IF timeFrame = "6M"
    THEN SelectSeq(ratingHistory,
                   LAMBDA contest : contest.ratingUpdateTimeSeconds >= now - HalfYearSeconds)
    ELSE ratingHistory

UpperCase == <<"A", "B", "C", "D", "E", "F", "G", "H", "I", "J", "K", "L", "M",
               "N", "O", "P", "Q", "R", "S", "T", "U", "V", "W", "X", "Y", "Z">>
LowerCase == <<"a", "b", "c", "d", "e", "f", "g", "h", "i", "j", "k", "l", "m",
               "n", "o", "p", "q", "r", "s", "t", "u", "v", "w", "x", "y", "z">>

\* String.prototype.toLowerCase
toLowerCase(s) ==
    [j \in 1..Len(s) |->
        IF \E k \in 1..Len(UpperCase) : UpperCase[k] = s[j]
        THEN LowerCase[CHOOSE k \in 1..Len(UpperCase) : UpperCase[k] = s[j]]
        ELSE s[j]]

\* String.prototype.includes
includes(s, t) ==
    \E p \in 0..(Len(s) - Len(t)) : SubSeq(s, p + 1, p + Len(t)) = t

Div1 == <<"d", "i", "v", ".", " ", "1">>
Div2 == <<"d", "i", "v", ".", " ", "2">>
Div3 == <<"d", "i", "v", ".", " ", "3">>
Educational == <<"e", "d", "u", "c", "a", "t", "i", "o", "n", "a", "l">>

\* a mutant of contestMatches: 'Div. 1' does not look for 'div. 2'
contestMatchesAnyDiv1(contest, contestType) ==
    LET contestName == toLowerCase(contest.contestName) IN
    CASE contestType = "Div. 1" -> includes(contestName, Div1)
      [] contestType = "Div. 2" -> includes(contestName, Div2)
      [] contestType = "Div. 3" -> includes(contestName, Div3)
      [] contestType = "Educational" -> includes(contestName, Educational)
      [] OTHER -> TRUE

\* the filter callback of filterContestsByType
contestMatches(contest, contestType) ==
    LET contestName == toLowerCase(contest.contestName) IN
    CASE contestType = "Div. 1" -> includes(contestName, Div1) /\ ~includes(contestName, Div2)
      [] contestType = "Div. 2" -> includes(contestName, Div2)
      [] contestType = "Div. 3" -> includes(contestName, Div3)
      [] contestType = "Educational" -> includes(contestName, Educational)
      [] OTHER -> TRUE

filterContestsByType(ratingHistory, contestType) ==
    IF Len(ratingHistory) = 0 \/ contestType = "All" THEN ratingHistory
    ELSE SelectSeq(ratingHistory, LAMBDA contest : contestMatches(contest, contestType))

(***************************************************************************)
(* fetchWithRetry (script.js:48-65).  A call is the record                 *)
(*   url    the request                                                    *)
(*   i      the loop variable                                              *)
(*   st     "fetch": a request is in flight; "sleep": the back-off timer   *)
(*          runs; "resolved" / "rejected": the promise has settled         *)
(*   sent   the number of fetch(url) calls made so far                     *)
(*   delay  the setTimeout delay of the current sleep, in ms               *)
(*   value  <<data.result>> once resolved                                  *)
(*   error  <<error.message>> once rejected                                *)
(* A response is what one attempt meets: reached (fetch resolved at all),  *)
(* httpStatus, parses (response.json() resolved), and the envelope's       *)
(* status, comment and result.                                             *)
(***************************************************************************)
newFetch(url) ==
    [url |-> url, i |-> 0, st |-> "fetch", sent |-> 1, delay |-> 0,
     value |-> <<>>, error |-> <<>>]

\* response.ok
responseOk(resp) == resp.httpStatus \in 200..299

\* the message of the error the try block throws on this response, <<>> if none
attemptError(resp) ==
    IF ~resp.reached THEN <<"Failed to fetch">>
    ELSE IF ~responseOk(resp)
    THEN <<"HTTP error! status: " \o ToString(resp.httpStatus)>>
    ELSE IF ~resp.parses THEN <<"Unexpected end of JSON input">>
    ELSE IF resp.status # "OK"
    THEN <<IF resp.comment # "" THEN resp.comment ELSE "API Error">>
    ELSE <<>>

\* a mutant of lastAttempt: the loop gives up one attempt early
lastAttemptEarly(i, retries) == i = retries - 2

\* if (i === retries - 1) throw error
lastAttempt(i, retries) == i = retries - 1

\* one attempt's response arrives: return data.result, rethrow, or sleep
retryStep(q, resp, retries) ==
    LET err == attemptError(resp) IN
    IF err = <<>>
    THEN [q EXCEPT !.st = "resolved", !.value = <<resp.result>>]
    ELSE IF lastAttempt(q.i, retries)
    THEN [q EXCEPT !.st = "rejected", !.error = err]
    ELSE [q EXCEPT !.st = "sleep", !.delay = 1000 * (q.i + 1)]

\* the timer fires: i++, and the next fetch(url) is issued
retryWake(q) ==
    [q EXCEPT !.i = q.i + 1, !.st = "fetch", !.sent = q.sent + 1, !.delay = 0]

settled(q) == q.st \in {"resolved", "rejected"}

\* the attempts of q that have failed so far
failedAttempts(q) == IF q.st \in {"sleep", "rejected"} THEN q.i + 1 ELSE q.i

(***************************************************************************)
(* The remote service, as the flows meet it.  Two handles exist: "a" has a *)
(* rating history and accepted submissions, "b" has neither.  A request    *)
(* may fail at any attempt; MaxFailures bounds the failed attempts of one  *)
(* run.                                                                    *)
(***************************************************************************)
MaxFailures == 5

HandleA == <<"a">>
HandleB == <<"b">>
Handles == {<<>>, <<" ">>, HandleA, HandleB}

Div2Round == <<"R", "o", "u", "n", "d", " ", "(", "D", "i", "v", ".", " ", "2", ")">>
EduRound == <<"E", "d", "u", "c", "a", "t", "i", "o", "n", "a", "l">>
Div1Round == <<"D", "i", "v", ".", " ", "1">>
Div3Round == <<"d", "i", "v", ".", " ", "3">>
Div1And2Round == <<"D", "I", "V", ".", " ", "1", "+", "D", "i", "v", ".", " ", "2">>

ServerUser(handle) ==
    IF handle = HandleA
    THEN [handle |-> handle, rank |-> <<"expert">>, rating |-> <<1600>>, maxRating |-> <<1700>>]
    ELSE [handle |-> handle, rank |-> <<>>, rating |-> <<>>, maxRating |-> <<>>]

ServerRating(handle) ==
    IF handle = HandleA
    THEN << [contestId |-> 1, contestName |-> Div2Round, rank |-> 20,
             oldRating |-> 1500, newRating |-> 1550, ratingUpdateTimeSeconds |-> 1000],
            [contestId |-> 2, contestName |-> EduRound, rank |-> 7,
             oldRating |-> 1550, newRating |-> 1600, ratingUpdateTimeSeconds |-> 2000] >>
    ELSE <<>>

ServerStatus(handle) ==
    IF handle = HandleA
    THEN << [id |-> 3, verdict |-> "OK",
             problem |-> [contestId |-> 1, index |-> "A", rating |-> <<800>>,
                          tags |-> <<"dp">>]],
            [id |-> 2, verdict |-> "WRONG_ANSWER",
             problem |-> [contestId |-> 1, index |-> "A", rating |-> <<800>>,
                          tags |-> <<"dp">>]],
            [id |-> 1, verdict |-> "OK",
             problem |-> [contestId |-> 2, index |-> "B", rating |-> <<>>,
                          tags |-> <<"dp", "greedy">>]] >>
    ELSE << [id |-> 4, verdict |-> "WRONG_ANSWER",
             problem |-> [contestId |-> 1, index |-> "A", rating |-> <<800>>,
                          tags |-> <<"dp">>]] >>

\* the url of getUserInfo, getUserRating, getUserSubmissions (script.js:67-81)
userInfoUrl(handle) == [method |-> "user.info", handle |-> handle]
userRatingUrl(handle) == [method |-> "user.rating", handle |-> handle]
userStatusUrl(handle) == [method |-> "user.status", handle |-> handle]

ServerResult(url) ==
    CASE url.method = "user.info" -> <<ServerUser(url.handle)>>
      [] url.method = "user.rating" -> ServerRating(url.handle)
      [] url.method = "user.status" -> ServerStatus(url.handle)

OkResponse(result) ==
    [reached |-> TRUE, httpStatus |-> 200, parses |-> TRUE, status |-> "OK",
     comment |-> "", result |-> result]

HttpFailure ==
    [reached |-> TRUE, httpStatus |-> 503, parses |-> FALSE, status |-> "",
     comment |-> "", result |-> <<>>]

ApiFailure ==
    [reached |-> TRUE, httpStatus |-> 200, parses |-> TRUE, status |-> "FAILED",
     comment |-> "handle: not found", result |-> <<>>]

FlowFailures == {HttpFailure, ApiFailure}

(***************************************************************************)
(* The page: showElement / hideElement / showError (script.js:9-46) and    *)
(* the update* and create*Chart functions.  What a function writes is      *)
(* stored with the id of the invocation that wrote it (by).                *)
(***************************************************************************)
ResultSections ==
    {"profileSection", "quickStats", "chartsSection", "contestSection", "comparisonResults"}

showElement(vis, id) == [vis EXCEPT ![id] = TRUE]
hideElement(vis, id) == [vis EXCEPT ![id] = FALSE]

\* showLoading() followed by hideError()
showLoading(vis) == hideElement(showElement(vis, "loadingIndicator"), "errorMessage")

\* a Chart built by one of the create*Chart functions
newChart(by, data) == <<[by |-> by, data |-> data]>>

\* updateProfile: name, rank, rating and max rating with their defaults
profileText(user) ==
    [userName |-> user.handle,
     userRank |-> IF user.rank # <<>> THEN user.rank[1] ELSE "Unrated",
     userRating |-> IF user.rating # <<>> /\ user.rating[1] # 0
                    THEN ToString(user.rating[1]) ELSE "Unrated",
     maxRating |-> IF user.maxRating # <<>> /\ user.maxRating[1] # 0
                   THEN ToString(user.maxRating[1]) ELSE "N/A"]

\* updateQuickStats
quickStatsText(acceptedSubmissions, contestStats) ==
    [totalSolved |-> Len(acceptedSubmissions),
     contestsAttended |-> contestStats.attended,
     bestRank |-> contestStats.bestRank,
     avgRating |-> contestStats.avgRating]

\* updateContestTable: the rows, newest first
contestRows(ratingHistory, contestFilter) ==
    LET filteredHistory == filterContestsByType(ratingHistory, contestFilter) IN
    [j \in 1..Len(filteredHistory) |->
        LET contest == filteredHistory[Len(filteredHistory) + 1 - j] IN
        [contestName |-> contest.contestName, rank |-> contest.rank,
         delta |-> contest.newRating - contest.oldRating, newRating |-> contest.newRating]]

\* the data of createRatingChart; timeFrame 'All' does not read the clock
ratingChartData(ratingHistory, timeFrame, now) ==
    LET filteredHistory == filterRatingHistoryByTime(ratingHistory, timeFrame, now) IN
    [j \in 1..Len(filteredHistory) |-> filteredHistory[j].newRating]

\* updateComparisonUI: the counts it writes
comparisonText(user1, user2, user1Rating, user2Rating, user1Accepted, user2Accepted) ==
    LET user1Problems == {problemKey(user1Accepted[j]) : j \in 1..Len(user1Accepted)}
        user2Problems == {problemKey(user2Accepted[j]) : j \in 1..Len(user2Accepted)}
        commonProblems == {p \in user1Problems : p \in user2Problems}
        user1Contests == {user1Rating[j].contestId : j \in 1..Len(user1Rating)}
        user2Contests == {user2Rating[j].contestId : j \in 1..Len(user2Rating)}
        commonContests == {c \in user1Contests : c \in user2Contests}
    IN  [user1Name |-> user1.handle, user2Name |-> user2.handle,
         user1Solved |-> Len(user1Accepted), user2Solved |-> Len(user2Accepted),
         user1Contests |-> Len(user1Rating), user2Contests |-> Len(user2Rating),
         commonProblems |-> Cardinality(commonProblems),
         commonContests |-> Cardinality(commonContests)]

(***************************************************************************)
(* analyzeUser (script.js:623-674) and compareUsers (script.js:676-727).   *)
(* An invocation is the record                                             *)
(*   fn       "analyzeUser" or "compareUsers"                              *)
(*   handles  its arguments                                                *)
(*   q        its fetchWithRetry calls: user.info, user.rating and         *)
(*            user.status of the first handle, then of the second          *)
(*   outcome  "invalid": returned at the validation; "pending": awaiting   *)
(*            Promise.all; "rendered": the try block ran to its end;       *)
(*            "failed": the catch block ran                                *)
(*   got      what the await gave: per handle, user, ratingHistory and     *)
(*            submissions                                                  *)
(*   error    <<error.message>> of the error caught                        *)
(* Its id is its position in calls.  A response's continuation runs to the *)
(* end of the invocation in one step: between a promise settling and the   *)
(* code awaiting it there are only microtasks.                             *)
(***************************************************************************)
\* String.prototype.trim
RECURSIVE trimStart(_)
trimStart(s) ==
    IF s # <<>> /\ Head(s) \in {" ", "\t", "\n"} THEN trimStart(Tail(s)) ELSE s

RECURSIVE trimEnd(_)
trimEnd(s) ==
    IF s # <<>> /\ s[Len(s)] \in {" ", "\t", "\n"}
    THEN trimEnd(SubSeq(s, 1, Len(s) - 1)) ELSE s

trim(s) == trimEnd(trimStart(s))

\* a mutant of invalidHandle: the handle is not trimmed
invalidHandleUntrimmed(handle) == handle = <<>>

\* !handle || handle.trim() === ''
invalidHandle(handle) == handle = <<>> \/ trim(handle) = <<>>

\* getUserInfo, getUserRating and getUserSubmissions, each up to its first await
handleQueries(handle) ==
    << newFetch(userInfoUrl(handle)), newFetch(userRatingUrl(handle)),
       newFetch(userStatusUrl(handle)) >>

\* getUserInfo's return users[0]
firstUser(q) == IF q.st = "resolved" THEN [q EXCEPT !.value = <<q.value[1][1]>>] ELSE q

\* a mutant of catchEmpty: no catch, the rejection stays
catchNothing(q) == q

\* .catch(() => []): a rejection becomes the value []
catchEmpty(q) ==
    IF q.st = "rejected"
    THEN [q EXCEPT !.st = "resolved", !.value = << <<>> >>, !.error = <<>>]
    ELSE q

\* the promises given to Promise.all; the nested Promise.all of compareUsers
\* settles as the flat one does
allPromises(qs) ==
    [j \in 1..Len(qs) |->
        CASE j % 3 = 1 -> firstUser(qs[j])
          [] j % 3 = 2 -> catchEmpty(qs[j])
          [] OTHER -> qs[j]]

promiseAllState(ps) ==
    IF \E j \in 1..Len(ps) : ps[j].st = "rejected" THEN "rejected"
    ELSE IF \A j \in 1..Len(ps) : ps[j].st = "resolved" THEN "resolved"
    ELSE "pending"

promiseAllError(ps) == ps[CHOOSE j \in 1..Len(ps) : ps[j].st = "rejected"].error

\* const [user, ratingHistory, submissions] of handle number k
destructure(ps, k) ==
    [user |-> ps[3 * k - 2].value[1],
     ratingHistory |-> ps[3 * k - 1].value[1],
     submissions |-> ps[3 * k].value[1]]

written(by, data) == <<[by |-> by, data |-> data]>>

\* a mutant of storeSession: an empty rating history is not stored
storeSessionRated(id, user, ratingHistory, submissions) ==
    [currentUser |-> written(id, user),
     currentUserSubmissions |-> written(id, submissions),
     currentUserRatingHistory |->
        IF Len(ratingHistory) > 0 THEN written(id, ratingHistory)
        ELSE currentUserRatingHistory]

\* a mutant of storeSession: an invocation that is not the newest stores nothing
storeSessionNewest(id, user, ratingHistory, submissions) ==
    IF id < Len(calls)
    THEN [currentUser |-> currentUser,
          currentUserSubmissions |-> currentUserSubmissions,
          currentUserRatingHistory |-> currentUserRatingHistory]
    ELSE [currentUser |-> written(id, user),
          currentUserSubmissions |-> written(id, submissions),
          currentUserRatingHistory |-> written(id, ratingHistory)]

\* script.js:644-646
storeSession(id, user, ratingHistory, submissions) ==
    [currentUser |-> written(id, user),
     currentUserSubmissions |-> written(id, submissions),
     currentUserRatingHistory |-> written(id, ratingHistory)]

\* script.js:644-666 and the finally block
analyzeRender(id, r) ==
    LET acceptedSubmissions == processSubmissions(r.submissions)
        problemStats == calculateProblemStats(acceptedSubmissions)
        contestStats == calculateContestStats(r.ratingHistory)
        session == storeSession(id, r.user, r.ratingHistory, r.submissions)
    IN  /\ currentUser' = session.currentUser
        /\ currentUserSubmissions' = session.currentUserSubmissions
        /\ currentUserRatingHistory' = session.currentUserRatingHistory
        /\ page' = [page EXCEPT
                      !.profile = written(id, profileText(r.user)),
                      !.quickStats = written(id, quickStatsText(acceptedSubmissions,
                                                                contestStats)),
                      !.contestTable = written(id, contestRows(r.ratingHistory, "All"))]
        /\ charts' = [charts EXCEPT
                      !.rating = IF Len(r.ratingHistory) > 0
                                 THEN newChart(id, ratingChartData(r.ratingHistory, "All", 0))
                                 ELSE @,
                      !.levels = newChart(id, problemStats.levels),
                      !.ratings = newChart(id, problemStats.ratings),
                      !.tags = newChart(id, problemStats.tags)]
        /\ visible' = [visible EXCEPT
                      !.profileSection = TRUE, !.quickStats = TRUE,
                      !.chartsSection = TRUE, !.contestSection = TRUE,
                      !.loadingIndicator = FALSE]
        /\ UNCHANGED errorText

\* script.js:700-719 and the finally block
compareRender(id, r1, r2) ==
    LET user1Accepted == processSubmissions(r1.submissions)
        user2Accepted == processSubmissions(r2.submissions)
    IN  /\ page' = [page EXCEPT
                      !.comparison = written(id,
                          comparisonText(r1.user, r2.user, r1.ratingHistory,
                                         r2.ratingHistory, user1Accepted, user2Accepted))]
        /\ charts' = [charts EXCEPT
                      !.comparison = newChart(id,
                          << ratingChartData(r1.ratingHistory, "All", 0),
                             ratingChartData(r2.ratingHistory, "All", 0) >>)]
        /\ visible' = [visible EXCEPT
                      !.comparisonResults = TRUE, !.loadingIndicator = FALSE]
        /\ UNCHANGED <<sessionVars, errorText>>

\* a mutant of catchError: the session is cleared
catchErrorClearing(message) ==
    /\ errorText' = "Error: " \o message
    /\ visible' = [visible EXCEPT !.errorMessage = TRUE, !.loadingIndicator = FALSE]
    /\ currentUser' = written(0, <<>>)
    /\ currentUserSubmissions' = written(0, <<>>)
    /\ currentUserRatingHistory' = written(0, <<>>)
    /\ UNCHANGED <<charts, page>>

\* the catch block, showError(`Error: ${error.message}`), and the finally block
catchError(message) ==
    /\ errorText' = "Error: " \o message
    /\ visible' = [visible EXCEPT !.errorMessage = TRUE, !.loadingIndicator = FALSE]
    /\ UNCHANGED <<sessionVars, charts, page>>

newCall(fn, handles, q, outcome) ==
    [fn |-> fn, handles |-> handles, q |-> q, outcome |-> outcome,
     got |-> <<>>, error |-> <<>>]

\* analyzeUser up to its await (script.js:623-642)
analyzeUser(handle) ==
    /\ IF invalidHandle(handle)
       THEN /\ errorText' = "Please enter a valid handle"
            /\ visible' = showElement(visible, "errorMessage")
            /\ calls' = Append(calls, newCall("analyzeUser", <<handle>>, <<>>, "invalid"))
       ELSE /\ visible' = [showLoading(visible) EXCEPT
                             !.errorMessage = FALSE,
                             !.profileSection = FALSE, !.quickStats = FALSE,
                             !.chartsSection = FALSE, !.contestSection = FALSE]
            /\ calls' = Append(calls, newCall("analyzeUser", <<handle>>,
                                              handleQueries(handle), "pending"))
            /\ UNCHANGED errorText
    /\ UNCHANGED <<sessionVars, charts, page, retryVars, pureVars>>

\* compareUsers up to its await (script.js:676-698)
compareUsers(handle1, handle2) ==
    /\ IF invalidHandle(handle1) \/ invalidHandle(handle2)
       THEN /\ errorText' = "Please enter both handles for comparison"
            /\ visible' = showElement(visible, "errorMessage")
            /\ calls' = Append(calls, newCall("compareUsers", <<handle1, handle2>>,
                                              <<>>, "invalid"))
       ELSE /\ visible' = [showLoading(visible) EXCEPT
                             !.errorMessage = FALSE, !.comparisonResults = FALSE]
            /\ calls' = Append(calls, newCall("compareUsers", <<handle1, handle2>>,
                                  handleQueries(handle1) \o handleQueries(handle2),
                                  "pending"))
            /\ UNCHANGED errorText
    /\ UNCHANGED <<sessionVars, charts, page, retryVars, pureVars>>

\* the code after the await, for invocation id whose requests have come to qs:
\* nothing while Promise.all is pending or once the invocation has ended,
\* else the rest of the try block or the catch block, and the finally block
afterAwait(id, qs) ==
    LET c == calls[id]
        ps == allPromises(qs)
        all == promiseAllState(ps)
    IN  IF c.outcome # "pending" \/ all = "pending"
        THEN /\ calls' = [calls EXCEPT ![id].q = qs]
             /\ UNCHANGED <<sessionVars, pageVars>>
        ELSE IF all = "rejected"
        THEN /\ calls' = [calls EXCEPT ![id] =
                             [c EXCEPT !.q = qs, !.outcome = "failed",
                                       !.error = promiseAllError(ps)]]
             /\ catchError(promiseAllError(ps)[1])
        ELSE IF c.fn = "analyzeUser"
        THEN /\ calls' = [calls EXCEPT ![id] =
                             [c EXCEPT !.q = qs, !.outcome = "rendered",
                                       !.got = <<destructure(ps, 1)>>]]
             /\ analyzeRender(id, destructure(ps, 1))
        ELSE /\ calls' = [calls EXCEPT ![id] =
                             [c EXCEPT !.q = qs, !.outcome = "rendered",
                                       !.got = <<destructure(ps, 1), destructure(ps, 2)>>]]
             /\ compareRender(id, destructure(ps, 1), destructure(ps, 2))

RECURSIVE SumFailed(_)
SumFailed(qs) == IF qs = <<>> THEN 0 ELSE failedAttempts(Head(qs)) + SumFailed(Tail(qs))

TotalFailed == SumSeq([id \in 1..Len(calls) |-> SumFailed(calls[id].q)])

\* the responses a request may meet
Responses(url) ==
    {OkResponse(ServerResult(url))}
        \cup (IF TotalFailed < MaxFailures THEN FlowFailures ELSE {})

(***************************************************************************)
(* One invocation, task by task: every response and every timer is a step. *)
(***************************************************************************)
StartAnalyze == calls = <<>> /\ \E handle \in Handles : analyzeUser(handle)

StartCompare ==
    calls = <<>> /\ \E handle1 \in Handles, handle2 \in Handles : compareUsers(handle1, handle2)

\* a response to request k of invocation id arrives
Respond(id, k, resp) ==
    /\ calls[id].q[k].st = "fetch"
    /\ afterAwait(id, [calls[id].q EXCEPT
                          ![k] = retryStep(calls[id].q[k], resp, DefaultRetries)])
    /\ UNCHANGED <<retryVars, pureVars>>

\* the back-off timer of request k of invocation id fires
TimerFires(id, k) ==
    /\ calls[id].q[k].st = "sleep"
    /\ calls' = [calls EXCEPT ![id].q[k] = retryWake(calls[id].q[k])]
    /\ UNCHANGED <<sessionVars, pageVars, retryVars, pureVars>>

Response ==
    \E id \in 1..Len(calls) : \E k \in 1..Len(calls[id].q) :
        \E resp \in Responses(calls[id].q[k].url) : Respond(id, k, resp)

Timer == \E id \in 1..Len(calls) : \E k \in 1..Len(calls[id].q) : TimerFires(id, k)

\* getContestList's url (script.js:83-86)
contestListUrl == [method |-> "contest.list", handle |-> <<>>]

IdleRetry == fq = newFetch(contestListUrl) /\ flog = <<>>

IdlePure ==
    /\ pureSubs = <<>>
    /\ pureHist = <<>>
    /\ pureOp = "none"
    /\ pureArg = <<>>
    /\ pureOut = <<>>

InitFlow ==
    /\ currentUser = written(0, <<>>)
    /\ currentUserSubmissions = written(0, <<>>)
    /\ currentUserRatingHistory = written(0, <<>>)
    /\ charts = [rating |-> <<>>, levels |-> <<>>, ratings |-> <<>>, tags |-> <<>>,
                 comparison |-> <<>>]
    /\ visible = [id \in ResultSections \cup {"errorMessage", "loadingIndicator"} |-> FALSE]
    /\ errorText = ""
    /\ page = [profile |-> <<>>, quickStats |-> <<>>, contestTable |-> <<>>,
               comparison |-> <<>>]
    /\ calls = <<>>

Init == InitFlow /\ IdleRetry /\ IdlePure

NextCall == StartAnalyze \/ StartCompare \/ Response \/ Timer

SpecCall == Init /\ [][NextCall]_vars

(***************************************************************************)
(* Several invocations, which may overlap.  What an invocation's requests  *)
(* do before its Promise.all settles touches only the invocation's own q,  *)
(* which no other code reads; so here the tasks of one invocation between  *)
(* its start and the settling of its Promise.all are one step, SettleCall. *)
(***************************************************************************)
\* the request answered at its first attempt
answered(q) == retryStep(q, OkResponse(ServerResult(q.url)), DefaultRetries)

\* the request failing with resp at every attempt
RECURSIVE exhausted(_, _)
exhausted(q, resp) ==
    LET q2 == retryStep(q, resp, DefaultRetries) IN
    IF q2.st = "sleep" THEN exhausted(retryWake(q2), resp) ELSE q2

\* the states of an invocation's requests in which its Promise.all settles:
\* every request is answered, the rating requests possibly exhausted; or one
\* request other than a rating request is exhausted while the others, which
\* nothing awaits any more, are left as they were issued
FinalQueries(qs) ==
    LET failure(name) == IF name = "http" THEN HttpFailure ELSE ApiFailure
        Fatal == {k \in 1..Len(qs) : k % 3 # 2}
        Rendered ==
            {[k \in 1..Len(qs) |-> IF k \in Fatal THEN "ok" ELSE r[k]] :
                r \in [(1..Len(qs)) \ Fatal -> {"ok", "http", "api"}]}
        Failed ==
            {[k \in 1..Len(qs) |-> IF k = j THEN e ELSE "open"] :
                j \in Fatal, e \in {"http", "api"}}
    IN  {[k \in 1..Len(qs) |->
            CASE f[k] = "ok" -> answered(qs[k])
              [] f[k] = "open" -> qs[k]
              [] OTHER -> exhausted(qs[k], failure(f[k]))] : f \in Rendered \cup Failed}

SettleCall(id, qs) ==
    /\ calls[id].outcome = "pending"
    /\ afterAwait(id, qs)
    /\ UNCHANGED <<retryVars, pureVars>>

Analyze == Len(calls) < MaxCalls /\ \E handle \in Handles : analyzeUser(handle)

\* the pairs of handles compared when invocations overlap
ComparePairs == {<<HandleA, HandleB>>, <<HandleA, <<" ">> >>, << <<>>, HandleB>>}

Compare ==
    /\ Len(calls) < MaxCalls
    /\ \E pair \in ComparePairs : compareUsers(pair[1], pair[2])

Settle ==
    \E id \in 1..Len(calls) : \E qs \in FinalQueries(calls[id].q) : SettleCall(id, qs)

Next == Analyze \/ Compare \/ Settle

Spec == Init /\ [][Next]_vars

(***************************************************************************)
(* One fetchWithRetry call on its own, with the default budget: the call   *)
(* getContestList makes.  flog records what each attempt met.              *)
(***************************************************************************)
RetryResponses ==
    { OkResponse(<<>>), OkResponse(<<[id |-> 1]>>),
      [reached |-> FALSE, httpStatus |-> 0, parses |-> FALSE, status |-> "",
       comment |-> "", result |-> <<>>],
      HttpFailure,
      [reached |-> TRUE, httpStatus |-> 200, parses |-> FALSE, status |-> "",
       comment |-> "", result |-> <<>>],
      ApiFailure,
      [reached |-> TRUE, httpStatus |-> 200, parses |-> TRUE, status |-> "FAILED",
       comment |-> "", result |-> <<>>] }

RetryRespond(resp) ==
    /\ fq.st = "fetch"
    /\ fq' = retryStep(fq, resp, DefaultRetries)
    /\ flog' = Append(flog, resp)
    /\ UNCHANGED <<flowVars, pureVars>>

RetryTimer ==
    /\ fq.st = "sleep"
    /\ fq' = retryWake(fq)
    /\ UNCHANGED <<flog, flowVars, pureVars>>

RetryResponse == \E resp \in RetryResponses : RetryRespond(resp)

NextRetry == RetryResponse \/ RetryTimer

SpecRetry == Init /\ [][NextRetry]_vars

(***************************************************************************)
(* The pure functions, each applied to inputs drawn from bounded sets.     *)
(***************************************************************************)
SubmissionPool ==
    { [id |-> 1, verdict |-> "OK",
       problem |-> [contestId |-> 1, index |-> "A", rating |-> <<800>>, tags |-> <<"dp">>]],
      [id |-> 2, verdict |-> "OK",
       problem |-> [contestId |-> 1, index |-> "A", rating |-> <<800>>, tags |-> <<"dp">>]],
      [id |-> 3, verdict |-> "WRONG_ANSWER",
       problem |-> [contestId |-> 1, index |-> "B1", rating |-> <<1250>>,
                    tags |-> <<"dp", "greedy">>]],
      [id |-> 4, verdict |-> "OK",
       problem |-> [contestId |-> 1, index |-> "B1", rating |-> <<1250>>,
                    tags |-> <<"dp", "greedy">>]],
      [id |-> 5, verdict |-> "OK",
       problem |-> [contestId |-> 11, index |-> "A", rating |-> <<>>, tags |-> <<>>]] }

\* the values Date.now() / 1000 may take when a filter runs
Clock == {40000000, 40000001}

\* the labels of the time filter's buttons, and one it does not know
TimeFrames == {"All", "1Y", "6M", "3M"}

\* the labels of the contest filter's buttons, and one it does not know
ContestTypes == {"All", "Div. 1", "Div. 2", "Div. 3", "Educational", "Div. 4"}

\* rating changes: the 1st lies a year before the earlier clock value to the
\* second, the 4th one second earlier, the 2nd and the 5th likewise around
\* six months
HistoryPool ==
    { [contestId |-> 1, contestName |-> Div2Round, rank |-> 20,
       oldRating |-> 0, newRating |-> 7, ratingUpdateTimeSeconds |-> 8464000],
      [contestId |-> 2, contestName |-> EduRound, rank |-> 7,
       oldRating |-> 7, newRating |-> -4, ratingUpdateTimeSeconds |-> 24448000],
      [contestId |-> 3, contestName |-> Div3Round, rank |-> 300,
       oldRating |-> -4, newRating |-> 2, ratingUpdateTimeSeconds |-> 39000000],
      [contestId |-> 4, contestName |-> Div1Round, rank |-> 7,
       oldRating |-> 2, newRating |-> -5, ratingUpdateTimeSeconds |-> 8463999],
      [contestId |-> 5, contestName |-> Div1And2Round, rank |-> 1,
       oldRating |-> -5, newRating |-> 1500, ratingUpdateTimeSeconds |-> 24447999] }

InitPure ==
    /\ InitFlow
    /\ IdleRetry
    /\ \/ pureSubs \in SeqsUpTo(SubmissionPool, MaxSubs) /\ pureHist = <<>>
       \/ pureSubs = <<>> /\ pureHist \in SeqsUpTo(HistoryPool, MaxHist)
    /\ pureOp = "none"
    /\ pureArg = <<>>
    /\ pureOut = <<>>

\* processSubmissions(submissions)
Normalize ==
    /\ pureOp = "none"
    /\ pureOp' = "processSubmissions"
    /\ pureArg' = pureSubs
    /\ pureOut' = processSubmissions(pureSubs)
    /\ UNCHANGED <<pureSubs, pureHist, flowVars, retryVars>>

\* processSubmissions applied to its own result
Renormalize ==
    /\ pureOp = "processSubmissions"
    /\ pureOp' = "processSubmissions again"
    /\ pureArg' = pureOut
    /\ pureOut' = processSubmissions(pureOut)
    /\ UNCHANGED <<pureSubs, pureHist, flowVars, retryVars>>

\* calculateProblemStats(processSubmissions(submissions))
ProblemStats ==
    /\ pureOp = "processSubmissions"
    /\ pureOp' = "calculateProblemStats"
    /\ pureArg' = pureOut
    /\ pureOut' = calculateProblemStats(pureOut)
    /\ UNCHANGED <<pureSubs, pureHist, flowVars, retryVars>>

\* calculateContestStats(ratingHistory)
ContestStats ==
    /\ pureOp = "none"
    /\ pureOp' = "calculateContestStats"
    /\ pureArg' = pureHist
    /\ pureOut' = calculateContestStats(pureHist)
    /\ UNCHANGED <<pureSubs, pureHist, flowVars, retryVars>>

\* filterRatingHistoryByTime(ratingHistory, timeFrame), run when the clock
\* shows now
FilterByTime ==
    /\ pureOp = "none"
    /\ \E timeFrame \in TimeFrames, now \in Clock :
          /\ pureArg' = [ratingHistory |-> pureHist, timeFrame |-> timeFrame, now |-> now]
          /\ pureOut' = filterRatingHistoryByTime(pureHist, timeFrame, now)
    /\ pureOp' = "filterRatingHistoryByTime"
    /\ UNCHANGED <<pureSubs, pureHist, flowVars, retryVars>>

\* filterContestsByType(ratingHistory, contestType)
FilterByType ==
    /\ pureOp = "none"
    /\ \E contestType \in ContestTypes :
          /\ pureArg' = [ratingHistory |-> pureHist, contestType |-> contestType]
          /\ pureOut' = filterContestsByType(pureHist, contestType)
    /\ pureOp' = "filterContestsByType"
    /\ UNCHANGED <<pureSubs, pureHist, flowVars, retryVars>>

\* the second user's arrays: of the kind the first user's arrays are
OtherSubs == IF pureHist = <<>> THEN SeqsUpTo(SubmissionPool, MaxOther) ELSE {<<>>}
OtherHist == IF pureSubs = <<>> THEN SeqsUpTo(HistoryPool, MaxOther) ELSE {<<>>}

\* compareUsers from its processSubmissions calls to updateComparisonUI
\* (script.js:703-706), for the two users in both orders and for the first
\* user with themself
Correlate ==
    /\ pureOp = "none"
    /\ \E subs2 \in OtherSubs, hist2 \in OtherHist :
          LET user1 == ServerUser(HandleA)
              user2 == ServerUser(HandleB)
              user1Accepted == processSubmissions(pureSubs)
              user2Accepted == processSubmissions(subs2)
          IN  /\ pureArg' = [user1Accepted |-> user1Accepted, user2Accepted |-> user2Accepted,
                             user1Rating |-> pureHist, user2Rating |-> hist2]
              /\ pureOut' =
                    [ab |-> comparisonText(user1, user2, pureHist, hist2,
                                           user1Accepted, user2Accepted),
                     ba |-> comparisonText(user2, user1, hist2, pureHist,
                                           user2Accepted, user1Accepted),
                     aa |-> comparisonText(user1, user1, pureHist, pureHist,
                                           user1Accepted, user1Accepted)]
    /\ pureOp' = "updateComparisonUI"
    /\ UNCHANGED <<pureSubs, pureHist, flowVars, retryVars>>

NextPure ==
    \/ Normalize \/ Renormalize \/ ProblemStats \/ ContestStats
    \/ FilterByTime \/ FilterByType \/ Correlate

SpecPure == InitPure /\ [][NextPure]_vars

(***************************************************************************)
(* Properties of fetchWithRetry, checked under SpecRetry.                  *)
(***************************************************************************)
AttemptFailed(j) == attemptError(flog[j]) # <<>>

\* C1: with the default budget of 3, requests are issued one after another
\* (a request goes out only when the previous attempt's outcome is known) and
\* none after the first successful attempt; the call resolves exactly when its
\* latest attempt succeeded, with that attempt's payload and no error (so
\* fail, fail, success gives the 3rd attempt's payload); it rejects exactly
\* when 3 attempts have failed, having issued exactly 3 requests, with exactly
\* one error, the error of the last attempt.
C1_RetryContract ==
    LET n == Len(flog) IN
    /\ n <= DefaultRetries
    /\ fq.sent = IF fq.st = "fetch" THEN n + 1 ELSE n
    /\ \A j \in 1..(n - 1) : AttemptFailed(j)
    /\ fq.st = "resolved" <=> (n >= 1 /\ ~AttemptFailed(n))
    /\ fq.st = "resolved" => fq.value = <<flog[n].result>> /\ fq.error = <<>>
    /\ fq.st = "rejected" <=> (n = 3 /\ AttemptFailed(3))
    /\ fq.st = "rejected" =>
          /\ fq.sent = 3
          /\ fq.value = <<>>
          /\ fq.error = attemptError(flog[3])
          /\ Len(fq.error) = 1
    /\ fq.st = "sleep" => (n \in 1..2 /\ AttemptFailed(n))

\* C1 witness: two failed attempts with different errors, then a success
\* carrying a non-empty payload
C1_FailFailSucceed ==
    /\ Len(flog) = 3
    /\ AttemptFailed(1) /\ AttemptFailed(2)
    /\ attemptError(flog[1]) # attemptError(flog[2])
    /\ fq.st = "resolved"
    /\ fq.value = << <<[id |-> 1]>> >>

(***************************************************************************)
(* Properties of the pure functions, checked under SpecPure.               *)
(***************************************************************************)
\* the (contestId, index) pair of a submission
KeyPair(sub) == <<sub.problem.contestId, sub.problem.index>>

\* the position of the first OK submission of s with the key pair k
FirstAccepted(s, k) ==
    CHOOSE p \in 1..Len(s) :
        /\ s[p].verdict = "OK" /\ KeyPair(s[p]) = k
        /\ \A r \in 1..(p - 1) : ~(s[r].verdict = "OK" /\ KeyPair(s[r]) = k)

AcceptedKeys(s) == {KeyPair(s[p]) : p \in {r \in 1..Len(s) : s[r].verdict = "OK"}}

\* C7: processSubmissions returns exactly one submission per distinct
\* (contestId, index) pair that has an OK submission; the one retained for a
\* pair is the first OK submission with that pair in input order; the output
\* is ordered by the positions of those first occurrences.
C7_FirstAcceptedPerKey ==
    pureOp = "processSubmissions" =>
        LET s == pureArg
            out == pureOut
        IN  /\ {KeyPair(out[j]) : j \in 1..Len(out)} = AcceptedKeys(s)
            /\ Len(out) = Cardinality(AcceptedKeys(s))
            /\ \A j \in 1..Len(out) : out[j] = s[FirstAccepted(s, KeyPair(out[j]))]
            /\ \A j \in 1..Len(out) : \A k \in 1..Len(out) :
                  j < k => FirstAccepted(s, KeyPair(out[j])) < FirstAccepted(s, KeyPair(out[k]))

\* C7 witness: the key of the 2nd submission is accepted again, by another
\* submission, at the 3rd place, after a rejected submission of another key
C7_DuplicateAccepted ==
    /\ pureOp = "processSubmissions"
    /\ Len(pureArg) = 3
    /\ pureArg[1].verdict # "OK"
    /\ pureArg[2].verdict = "OK" /\ pureArg[3].verdict = "OK"
    /\ KeyPair(pureArg[2]) = KeyPair(pureArg[3])
    /\ pureArg[2] # pureArg[3]
    /\ pureOut = <<pureArg[2]>>

\* C8: processSubmissions applied to a result of processSubmissions returns it
\* unchanged, the same elements in the same order.
C8_Idempotent ==
    pureOp = "processSubmissions again" => pureOut = pureArg

\* C8 witness: a result of two submissions has been normalized again
C8_RenormalizedTwo ==
    /\ pureOp = "processSubmissions again"
    /\ Len(pureSubs) = 3
    /\ Len(pureArg) = 2
    /\ pureOut = pureArg

\* the submissions of s that carry a rating
Rated(s) == {j \in 1..Len(s) : Len(s[j].problem.rating) = 1}

\* C9: for a normalized sequence, the level counts sum to the number of
\* submissions, the tag counts to the total number of tags, the rating counts
\* to the number of submissions that carry a rating; each of these is counted
\* once in the bucket floor(rating / 100) * 100, and no other bucket exists.
C9_HistogramSums ==
    pureOp = "calculateProblemStats" =>
        LET s == pureArg
            stats == pureOut
            bucket(j) == (s[j].problem.rating[1] \div 100) * 100
        IN  /\ SumSet(stats.levels, DOMAIN stats.levels) = Len(s)
            /\ SumSet(stats.tags, DOMAIN stats.tags)
                  = SumSeq([j \in 1..Len(s) |-> Len(s[j].problem.tags)])
            /\ SumSet(stats.ratings, DOMAIN stats.ratings) = Cardinality(Rated(s))
            /\ DOMAIN stats.ratings = {bucket(j) : j \in Rated(s)}
            /\ \A b \in DOMAIN stats.ratings :
                  stats.ratings[b] = Cardinality({j \in Rated(s) : bucket(j) = b})

\* C9 witness: three problems, one without a rating, one whose rating is not
\* a multiple of 100 and which has two tags
C9_MixedRatings ==
    /\ pureOp = "calculateProblemStats"
    /\ Len(pureArg) = 3
    /\ \E j \in 1..3 : pureArg[j].problem.rating = <<>>
    /\ \E j \in 1..3 : pureArg[j].problem.rating = <<1250>> /\ Len(pureArg[j].problem.tags) = 2
    /\ pureOut.ratings = (800 :> 1) @@ (1200 :> 1)

\* the one-character string U+2014 (em dash), which the spec names as the
\* sentinel; the module's text is ASCII, so the string here is its code point
EmDash == "U+2014"

\* C10, as stated: for the empty rating history calculateContestStats returns
\* attended = 0 and the em dash for bestRank and avgRating.
C10_EmDashSentinel ==
    (pureOp = "calculateContestStats" /\ pureArg = <<>>) =>
        pureOut = [attended |-> 0, bestRank |-> EmDash, avgRating |-> EmDash]

\* C10, amended: for the empty rating history calculateContestStats returns
\* attended = 0 and the one-character string "-" (U+002D, hyphen-minus) for
\* bestRank and avgRating: no NaN, no infinite value, nothing thrown.
C10_HyphenSentinel ==
    (pureOp = "calculateContestStats" /\ pureArg = <<>>) =>
        /\ pureOut = [attended |-> 0, bestRank |-> "-", avgRating |-> "-"]
        /\ pureOut.bestRank \notin {"NaN", "Infinity", "-Infinity"}
        /\ pureOut.avgRating \notin {"NaN", "Infinity", "-Infinity"}

\* C10 witness: calculateContestStats has been applied to the empty history
C10_EmptyHistoryApplied ==
    /\ pureOp = "calculateContestStats"
    /\ pureHist = <<>>
    /\ pureArg = <<>>
    /\ pureOut.attended = 0

\* C11: for a non-empty rating history calculateContestStats returns attended
\* = its length, bestRank = the least rank of its entries, and avgRating = the
\* integer nearest to the mean of newRating over its entries (a mean ending in
\* one half goes to the integer above), also when newRating values are negative.
C11_ContestStats ==
    (pureOp = "calculateContestStats" /\ pureArg # <<>>) =>
        LET h == pureArg
            n == Len(h)
            sum == SumSeq([j \in 1..n |-> h[j].newRating])
            diff == 2 * n * pureOut.avgRating - 2 * sum
        IN  /\ pureOut.attended = n
            /\ \E j \in 1..n : h[j].rank = pureOut.bestRank
            /\ \A j \in 1..n : pureOut.bestRank <= h[j].rank
            /\ pureOut.avgRating \in Int
            /\ diff <= n /\ -diff <= n
            /\ -diff # n

\* C11 witness: three entries, the best rank not at the first one, a negative
\* mean that is not an integer
C11_NegativeMean ==
    /\ pureOp = "calculateContestStats"
    /\ Len(pureArg) = 3
    /\ pureArg[1].rank > pureOut.bestRank
    /\ \E j \in 1..3 : pureArg[j].newRating < 0
    /\ SumSeq([j \in 1..3 |-> pureArg[j].newRating]) = -7
    /\ pureOut.avgRating = -2

\* the k-th least of the positions S
KthOf(S, k) == CHOOSE j \in S : Cardinality({i \in S : i < j}) = k - 1

\* out is made of the entries of h at the positions Kept, and of no other, in
\* the order they have in h
ExactlyKept(h, out, Kept) ==
    /\ Len(out) = Cardinality(Kept)
    /\ \A k \in 1..Len(out) : out[k] = h[KthOf(Kept, k)]

\* C12: filterRatingHistoryByTime(h, label), run at time now, returns exactly
\* the entries of h whose ratingUpdateTimeSeconds is at least now - 31536000
\* for the label 1Y, at least now - 15552000 for the label 6M, in the order
\* they have in h; for All and for any other label it returns h; h is as it
\* was before the call.
C12_TimeFilter ==
    pureOp = "filterRatingHistoryByTime" =>
        LET h == pureArg.ratingHistory
            label == pureArg.timeFrame
            Since(window) ==
                {j \in 1..Len(h) : h[j].ratingUpdateTimeSeconds >= pureArg.now - window}
        IN  /\ pureHist = h
            /\ label = "1Y" => ExactlyKept(h, pureOut, Since(31536000))
            /\ label = "6M" => ExactlyKept(h, pureOut, Since(15552000))
            /\ label \notin {"1Y", "6M"} => pureOut = h

\* C12 witness: the label 1Y; the 1st entry is one second older than a year
\* and is dropped, the 3rd is exactly a year old and is kept, after the 2nd,
\* which is newer
C12_YearBoundary ==
    /\ pureOp = "filterRatingHistoryByTime"
    /\ pureArg.timeFrame = "1Y"
    /\ Len(pureHist) = 3
    /\ pureHist[1].ratingUpdateTimeSeconds = pureArg.now - 31536000 - 1
    /\ pureHist[3].ratingUpdateTimeSeconds = pureArg.now - 31536000
    /\ pureHist[2].ratingUpdateTimeSeconds > pureHist[3].ratingUpdateTimeSeconds
    /\ pureOut = <<pureHist[2], pureHist[3]>>

\* C13: filterContestsByType(h, label) returns exactly the entries of h whose
\* lower-cased contest name satisfies the label's predicate, in the order they
\* have in h: for Div. 1 it contains 'div. 1' and not 'div. 2' (so no entry
\* returned contains 'div. 2'), for Div. 2 it contains 'div. 2', for Div. 3
\* 'div. 3', for Educational 'educational'; for All and for any other label
\* every entry is returned; h is as it was before the call.
C13_TypeFilter ==
    pureOp = "filterContestsByType" =>
        LET h == pureArg.ratingHistory
            label == pureArg.contestType
            With(t) == {j \in 1..Len(h) : includes(toLowerCase(h[j].contestName), t)}
        IN  /\ pureHist = h
            /\ label = "Div. 1" =>
                  /\ ExactlyKept(h, pureOut, With(Div1) \ With(Div2))
                  /\ \A k \in 1..Len(pureOut) :
                        ~includes(toLowerCase(pureOut[k].contestName), Div2)
            /\ label = "Div. 2" => ExactlyKept(h, pureOut, With(Div2))
            /\ label = "Div. 3" => ExactlyKept(h, pureOut, With(Div3))
            /\ label = "Educational" => ExactlyKept(h, pureOut, With(Educational))
            /\ label \notin {"Div. 1", "Div. 2", "Div. 3", "Educational"} => pureOut = h

\* C13 witness: the label Div. 1; the 1st entry's name has 'DIV. 1' and
\* 'Div. 2' and is dropped, the 2nd has 'Div. 1' only and is kept, the 3rd has
\* 'Div. 2' only and is dropped
C13_Div1WithoutDiv2 ==
    /\ pureOp = "filterContestsByType"
    /\ pureArg.contestType = "Div. 1"
    /\ Len(pureHist) = 3
    /\ pureHist[1].contestName = Div1And2Round
    /\ pureHist[2].contestName = Div1Round
    /\ pureHist[3].contestName = Div2Round
    /\ pureOut = <<pureHist[2]>>

\* the (contestId, index) pairs of a submission array, the contest ids of a
\* rating history
KeyPairs(s) == {KeyPair(s[j]) : j \in 1..Len(s)}
ContestIds(h) == {h[j].contestId : j \in 1..Len(h)}

\* C14: the number of shared problems updateComparisonUI computes from two
\* normalized submission arrays is the size of the intersection of their sets
\* of (contestId, index) pairs; it is the same with the two users exchanged;
\* for a user compared with themself it is the length of their normalized
\* array.  The number of shared contests is the size of the intersection of
\* the two sets of contest ids, and the same with the users exchanged.
C14_SharedCounts ==
    pureOp = "updateComparisonUI" =>
        LET a == pureArg.user1Accepted
            b == pureArg.user2Accepted
            ha == pureArg.user1Rating
            hb == pureArg.user2Rating
        IN  /\ pureOut.ab.commonProblems = Cardinality(KeyPairs(a) \cap KeyPairs(b))
            /\ pureOut.ba.commonProblems = pureOut.ab.commonProblems
            /\ pureOut.aa.commonProblems = Len(a)
            /\ pureOut.ab.commonContests = Cardinality(ContestIds(ha) \cap ContestIds(hb))
            /\ pureOut.ba.commonContests = pureOut.ab.commonContests
            /\ pureOut.aa.commonContests = Cardinality(ContestIds(ha))

\* C14 witness: each user has solved two problems; they share one, which they
\* solved by different submissions, and each has one, of another contest, the
\* other has not
C14_OneSharedProblem ==
    /\ pureOp = "updateComparisonUI"
    /\ Len(pureArg.user1Accepted) = 2 /\ Len(pureArg.user2Accepted) = 2
    /\ KeyPair(pureArg.user1Accepted[1]) = KeyPair(pureArg.user2Accepted[2])
    /\ pureArg.user1Accepted[1] # pureArg.user2Accepted[2]
    /\ KeyPair(pureArg.user1Accepted[2])[1] # KeyPair(pureArg.user2Accepted[1])[1]
    /\ pureOut.ab.commonProblems = 1
    /\ pureOut.ba.commonProblems = 1
    /\ pureOut.aa.commonProblems = 2

(***************************************************************************)
(* Properties of one invocation, checked under SpecCall.                   *)
(***************************************************************************)
\* a request other than a rating request has been rejected
FatalRejected(c) ==
    \E k \in 1..Len(c.q) : k % 3 # 2 /\ c.q[k].st = "rejected"

AllSettled(c) == \A k \in 1..Len(c.q) : settled(c.q[k])

\* the sections an invocation shows when it succeeds
SectionsOf(c) ==
    IF c.fn = "analyzeUser"
    THEN {"profileSection", "quickStats", "chartsSection", "contestSection"}
    ELSE {"comparisonResults"}

\* C2: in analyzeUser and in compareUsers, a rating-history request rejected
\* after its retries is replaced by the empty sequence and the invocation still
\* completes and renders its view; a profile or submission-history request
\* rejected after its retries, of either handle, makes the invocation fail
\* with that request's error shown.
C2_RatingFailureAbsorbed ==
    \A id \in 1..Len(calls) :
        LET c == calls[id] IN
        c.outcome # "invalid" =>
            /\ c.outcome = "pending" => ~FatalRejected(c) /\ ~AllSettled(c)
            /\ c.outcome = "rendered" =>
                  /\ ~FatalRejected(c)
                  /\ AllSettled(c)
                  /\ Len(c.got) = Len(c.handles)
                  /\ \A h \in 1..Len(c.handles) :
                        /\ c.got[h].user = c.q[3 * h - 2].value[1][1]
                        /\ c.got[h].submissions = c.q[3 * h].value[1]
                        /\ c.got[h].ratingHistory =
                              IF c.q[3 * h - 1].st = "rejected" THEN <<>>
                              ELSE c.q[3 * h - 1].value[1]
                  /\ \A sec \in SectionsOf(c) : visible[sec]
                  /\ ~visible.errorMessage
            /\ c.outcome = "failed" =>
                  /\ \E k \in 1..Len(c.q) :
                        k % 3 # 2 /\ c.q[k].st = "rejected" /\ c.error = c.q[k].error
                  /\ c.got = <<>>
                  /\ visible.errorMessage
                  /\ errorText = "Error: " \o c.error[1]
                  /\ \A sec \in ResultSections : ~visible[sec]

\* C2 witness: a comparison has rendered although the rating request of its
\* second handle was rejected after 3 attempts; the first handle's rating
\* history arrived
C2_ComparisonWithoutRating ==
    /\ Len(calls) = 1
    /\ calls[1].fn = "compareUsers"
    /\ calls[1].outcome = "rendered"
    /\ calls[1].q[5].st = "rejected" /\ calls[1].q[5].sent = 3
    /\ calls[1].got[2].ratingHistory = <<>>
    /\ calls[1].got[1].ratingHistory # <<>>
    /\ visible.comparisonResults

\* what Spec's SettleCall may make of an invocation covers what the
\* invocation comes to task by task: its outcome, results and error
SettleCovers ==
    \A id \in 1..Len(calls) :
        LET c == calls[id] IN
        c.outcome \in {"rendered", "failed"} =>
            \E qs \in FinalQueries(IF c.fn = "analyzeUser"
                                   THEN handleQueries(c.handles[1])
                                   ELSE handleQueries(c.handles[1])
                                            \o handleQueries(c.handles[2])) :
                LET ps == allPromises(qs) IN
                IF c.outcome = "failed"
                THEN promiseAllState(ps) = "rejected" /\ promiseAllError(ps) = c.error
                ELSE /\ promiseAllState(ps) = "resolved"
                     /\ c.got = [h \in 1..Len(c.handles) |-> destructure(ps, h)]

(***************************************************************************)
(* Properties of overlapping invocations, checked under Spec.              *)
(***************************************************************************)
\* a handle that is empty or consists of white space only
BlankHandle(handle) == \A j \in 1..Len(handle) : handle[j] \in {" ", "\t", "\n"}

HasBlankHandle(c) == \E h \in 1..Len(c.handles) : BlankHandle(c.handles[h])

ValidationMessage(c) ==
    IF c.fn = "analyzeUser" THEN "Please enter a valid handle"
    ELSE "Please enter both handles for comparison"

RECURSIVE SumSent(_)
SumSent(qs) == IF qs = <<>> THEN 0 ELSE Head(qs).sent + SumSent(Tail(qs))

\* C3: an analyzeUser called with an empty or blank handle, or a compareUsers
\* called with at least one, shows its validation error in the step of the
\* call, and at no time has that invocation issued a request.
C3_ValidationBeforeNetwork ==
    [][\A id \in 1..Len(calls') :
          HasBlankHandle(calls'[id]) =>
              /\ calls'[id].outcome = "invalid"
              /\ SumSent(calls'[id].q) = 0
              /\ id > Len(calls) =>
                    /\ visible'.errorMessage
                    /\ errorText' = ValidationMessage(calls'[id])]_vars

\* C3 witness: while a first invocation awaits its requests, analyzeUser has
\* been called with a handle of one space: its error is shown, it has no request
C3_BlankHandleRefused ==
    /\ Len(calls) = 2
    /\ calls[1].outcome = "pending"
    /\ calls[2].fn = "analyzeUser"
    /\ calls[2].handles = << <<" ">> >>
    /\ calls[2].outcome = "invalid"
    /\ calls[2].q = <<>>
    /\ visible.errorMessage
    /\ errorText = "Please enter a valid handle"

\* C4, as stated: the error display is never visible at the same time as a
\* result section.
C4_ErrorExclusive ==
    ~(visible.errorMessage /\ \E sec \in ResultSections : visible[sec])

\* C5: the three session variables hold the results of one and the same
\* analyzeUser invocation, one that rendered, or all hold their initial values.
C5_SessionWholesale ==
    LET by == currentUser[1].by IN
    /\ currentUserSubmissions[1].by = by
    /\ currentUserRatingHistory[1].by = by
    /\ by = 0 =>
          /\ currentUser[1].data = <<>>
          /\ currentUserSubmissions[1].data = <<>>
          /\ currentUserRatingHistory[1].data = <<>>
    /\ by # 0 =>
          /\ by \in 1..Len(calls)
          /\ calls[by].fn = "analyzeUser"
          /\ calls[by].outcome = "rendered"
          /\ currentUser[1].data = calls[by].got[1].user
          /\ currentUserSubmissions[1].data = calls[by].got[1].submissions
          /\ currentUserRatingHistory[1].data = calls[by].got[1].ratingHistory

\* C5 witness: two analyzeUser invocations of different handles overlapped,
\* the second rendered first, and the session holds the results of the first,
\* whose rating history is empty
C5_OverlappingAnalyses ==
    /\ Len(calls) = 2
    /\ calls[1].fn = "analyzeUser" /\ calls[2].fn = "analyzeUser"
    /\ calls[1].handles # calls[2].handles
    /\ calls[1].outcome = "rendered" /\ calls[2].outcome = "rendered"
    /\ currentUser[1].by = 1
    /\ page.profile[1].by = 1
    /\ calls[1].got[1].ratingHistory = <<>>
    /\ calls[2].got[1].ratingHistory # <<>>

\* what the analysis view holds is all written by invocation id
ViewWrittenBy(id) ==
    /\ page.profile # <<>> /\ page.profile[1].by = id
    /\ page.quickStats # <<>> /\ page.quickStats[1].by = id
    /\ page.contestTable # <<>> /\ page.contestTable[1].by = id
    /\ charts.levels # <<>> /\ charts.levels[1].by = id
    /\ charts.ratings # <<>> /\ charts.ratings[1].by = id
    /\ charts.tags # <<>> /\ charts.tags[1].by = id
    /\ charts.rating # <<>> => charts.rating[1].by = id

\* C6, as stated: when an analyzeUser invocation completes successfully, all
\* that the analysis view holds is derived from that invocation's results;
\* nothing written by an earlier invocation survives.
C6_ViewReplaced ==
    [][\A id \in 1..Len(calls) :
          (/\ calls[id].fn = "analyzeUser"
           /\ calls[id].outcome = "pending"
           /\ calls'[id].outcome = "rendered") => ViewWrittenBy(id)']_vars

\* C15: a newer invocation aborts nothing: calling analyzeUser or compareUsers
\* leaves every earlier invocation, its requests included, as it was; and an
\* analyzeUser invocation whose requests have been answered stores its results
\* in the three session variables and writes the profile, the quick
\* statistics, the contest table and the problem charts, whether or not newer
\* invocations exist or have already rendered.
C15_LateResultOverwrites ==
    [][/\ \A id \in 1..Len(calls) : Len(calls') > Len(calls) => calls'[id] = calls[id]
       /\ \A id \in 1..Len(calls) :
             (/\ calls[id].fn = "analyzeUser"
              /\ calls[id].outcome = "pending"
              /\ calls'[id].outcome = "rendered") =>
                 /\ currentUser' = written(id, calls'[id].got[1].user)
                 /\ currentUserSubmissions' = written(id, calls'[id].got[1].submissions)
                 /\ currentUserRatingHistory' = written(id, calls'[id].got[1].ratingHistory)
                 /\ page'.profile[1].by = id
                 /\ page'.quickStats[1].by = id
                 /\ page'.contestTable[1].by = id
                 /\ charts'.levels[1].by = id
                 /\ charts'.ratings[1].by = id
                 /\ charts'.tags[1].by = id]_vars

\* C15 witness: analyzeUser('a') was called, then analyzeUser('b') before the
\* first had settled; both have rendered, and the session and the view hold
\* the results of 'a', the query issued first: those of 'b' were stored first
\* and have been overwritten
C15_StaleOverwrite ==
    /\ Len(calls) = 2
    /\ calls[1].fn = "analyzeUser" /\ calls[1].handles = <<HandleA>>
    /\ calls[2].fn = "analyzeUser" /\ calls[2].handles = <<HandleB>>
    /\ calls[1].outcome = "rendered" /\ calls[2].outcome = "rendered"
    /\ currentUser = written(1, ServerUser(HandleA))
    /\ currentUserSubmissions = written(1, ServerStatus(HandleA))
    /\ currentUserRatingHistory = written(1, ServerRating(HandleA))
    /\ ViewWrittenBy(1)
    /\ charts.rating # <<>>
    /\ page.profile[1].data.userName = HandleA
    /\ visible.profileSection

\* C16: a step in which an analyzeUser invocation ends in an error (at the
\* validation of its handle, or in its catch block after a profile or
\* submission request was rejected) leaves the three session variables as they
\* were; so does every step of a compareUsers invocation, whatever its outcome.
C16_SessionFrame ==
    [][\A id \in 1..Len(calls') :
          (/\ id > Len(calls) \/ calls'[id] # calls[id]
           /\ \/ calls'[id].fn = "compareUsers"
              \/ calls'[id].outcome \in {"invalid", "failed"}) =>
              UNCHANGED sessionVars]_vars

\* C16 witness: analyzeUser('a') rendered; then a second analyzeUser was
\* called and failed after 3 attempts of its profile or submission request;
\* the session still holds the results of 'a'
C16_FailedAfterSuccess ==
    /\ Len(calls) = 2
    /\ calls[1].fn = "analyzeUser" /\ calls[1].outcome = "rendered"
    /\ calls[2].fn = "analyzeUser" /\ calls[2].outcome = "failed"
    /\ \E k \in {1, 3} : calls[2].q[k].st = "rejected" /\ calls[2].q[k].sent = 3
    /\ ~visible.profileSection
    /\ visible.errorMessage
    /\ currentUser = written(1, ServerUser(HandleA))
    /\ currentUserSubmissions = written(1, ServerStatus(HandleA))
    /\ currentUserRatingHistory = written(1, ServerRating(HandleA))

====
